---- MODULE Spec2Model ----
(***************************************************************************)
(* obs-scene-transporter: export / import of OBS Studio scene collections. *)
(*                                                                         *)
(* Python strings are modelled as sequences of one-character strings, so   *)
(* that startswith, partition, split, dirname and basename are computed    *)
(* character by character as the library computes them.  JSON values are   *)
(* tagged records [t, v]: t = "dict" (v a function from keys to values),   *)
(* "list" (v a sequence), "str" (v a string) and "num" (v an integer).     *)
(***************************************************************************)
EXTENDS Integers, Sequences, FiniteSets, TLC

(***************************************************************************)
(* The string literals of the program                                      *)
(***************************************************************************)

S_sources == <<"s", "o", "u", "r", "c", "e", "s">>
S_transitions == <<"t", "r", "a", "n", "s", "i", "t", "i", "o", "n", "s">>
S_name == <<"n", "a", "m", "e">>
S_id == <<"i", "d">>
S_versioned_id == <<"v", "e", "r", "s", "i", "o", "n", "e", "d", "_", "i", "d">>
S_settings == <<"s", "e", "t", "t", "i", "n", "g", "s">>
S_local_file == <<"l", "o", "c", "a", "l", "_", "f", "i", "l", "e">>
S_file == <<"f", "i", "l", "e">>
S_files == <<"f", "i", "l", "e", "s">>
S_value == <<"v", "a", "l", "u", "e">>
S_playlist == <<"p", "l", "a", "y", "l", "i", "s", "t">>
S_path == <<"p", "a", "t", "h">>
S_ffmpeg_source == <<"f", "f", "m", "p", "e", "g", "_", "s", "o", "u", "r", "c", "e">>
S_image_source == <<"i", "m", "a", "g", "e", "_", "s", "o", "u", "r", "c", "e">>
S_slideshow == <<"s", "l", "i", "d", "e", "s", "h", "o", "w">>
S_vlc_source == <<"v", "l", "c", "_", "s", "o", "u", "r", "c", "e">>
S_obs_stinger_transition == <<"o", "b", "s", "_", "s", "t", "i", "n", "g", "e", "r", "_", "t", "r", "a", "n", "s", "i", "t", "i", "o", "n">>
S_scene == <<"s", "c", "e", "n", "e">>
S_v4l2_input == <<"v", "4", "l", "2", "_", "i", "n", "p", "u", "t">>
S_xshm_input == <<"x", "s", "h", "m", "_", "i", "n", "p", "u", "t">>
S_av_capture_input == <<"a", "v", "_", "c", "a", "p", "t", "u", "r", "e", "_", "i", "n", "p", "u", "t">>
S_display_capture == <<"d", "i", "s", "p", "l", "a", "y", "_", "c", "a", "p", "t", "u", "r", "e">>
S_dshow_input == <<"d", "s", "h", "o", "w", "_", "i", "n", "p", "u", "t">>
S_monitor_capture == <<"m", "o", "n", "i", "t", "o", "r", "_", "c", "a", "p", "t", "u", "r", "e">>
S_assets == <<"a", "s", "s", "e", "t", "s">>
S_scene_collection_json == <<"s", "c", "e", "n", "e", "-", "c", "o", "l", "l", "e", "c", "t", "i", "o", "n", ".", "j", "s", "o", "n">>
S_dot_json == <<".", "j", "s", "o", "n">>
S_marker == <<"/", ".", "/">>
S_settings_local_file == <<"s", "e", "t", "t", "i", "n", "g", "s", ".", "l", "o", "c", "a", "l", "_", "f", "i", "l", "e">>
S_settings_file == <<"s", "e", "t", "t", "i", "n", "g", "s", ".", "f", "i", "l", "e">>
S_settings_files_value == <<"s", "e", "t", "t", "i", "n", "g", "s", ".", "f", "i", "l", "e", "s", ".", "v", "a", "l", "u", "e">>
S_settings_playlist_value == <<"s", "e", "t", "t", "i", "n", "g", "s", ".", "p", "l", "a", "y", "l", "i", "s", "t", ".", "v", "a", "l", "u", "e">>
S_settings_path == <<"s", "e", "t", "t", "i", "n", "g", "s", ".", "p", "a", "t", "h">>

(***************************************************************************)
(* Python str operations                                                   *)
(***************************************************************************)

\* F applied to a value computed once: "x = val; ... x ... x ..."
Bind(val, F(_)) == F(val)

\* the least element of a set of positions, 0 for the empty set
First(S) == IF S = {} THEN 0 ELSE CHOOSE i \in S : \A j \in S : i <= j

\* the greatest element of a set of positions, 0 for the empty set
Last(S) == IF S = {} THEN 0 ELSE CHOOSE i \in S : \A j \in S : i >= j

\* str.startswith
StartsWith(s, p) ==
    /\ Len(p) <= Len(s)
    /\ SubSeq(s, 1, Len(p)) = p

\* s[n:] for n >= 0
From(s, n) == IF n >= Len(s) THEN <<>> ELSE SubSeq(s, n + 1, Len(s))

\* str.find, 1-based; 0 when pat does not occur
Find(s, pat) ==
    First({i \in 1..(Len(s) - Len(pat) + 1) : SubSeq(s, i, i + Len(pat) - 1) = pat})

\* str.rfind, 1-based; 0 when pat does not occur
RFind(s, pat) ==
    Last({i \in 1..(Len(s) - Len(pat) + 1) : SubSeq(s, i, i + Len(pat) - 1) = pat})

\* pat in s, for strings
Contains(s, pat) == Find(s, pat) # 0

\* s.partition(pat)[2]: what follows the first occurrence of pat, "" if there is none
PartitionTail(s, pat) ==
    Bind(Find(s, pat), LAMBDA i : IF i = 0 THEN <<>> ELSE From(s, i + Len(pat) - 1))

\* s.rstrip(c)
RECURSIVE RStrip(_, _)
RStrip(s, c) ==
    IF s # <<>> /\ s[Len(s)] = c THEN RStrip(SubSeq(s, 1, Len(s) - 1), c) ELSE s

\* s.lstrip(c)
RECURSIVE LStrip(_, _)
LStrip(s, c) ==
    IF s # <<>> /\ s[1] = c THEN LStrip(Tail(s), c) ELSE s

\* s.split(c) for a one-character separator: always at least one piece
RECURSIVE Split(_, _)
Split(s, c) ==
    Bind(Find(s, <<c>>),
         LAMBDA i : IF i = 0 THEN <<s>>
                    ELSE <<SubSeq(s, 1, i - 1)>> \o Split(From(s, i), c))

\* c.join(parts)
RECURSIVE Join(_, _)
Join(parts, c) ==
    IF parts = <<>> THEN <<>>
    ELSE IF Len(parts) = 1 THEN parts[1]
    ELSE parts[1] \o <<c>> \o Join(Tail(parts), c)

\* the characters in use, in code point order: str values compare by code point
CodePoints ==
    <<" ", "-", ".", "/", "0", "1", "2", "3", "4", "5", "6", "7", "8", "9", "A", "B",
      "C", "D", "E", "F", "G", "H", "I", "J", "K", "L", "M", "N", "O", "P", "Q", "R",
      "S", "T", "U", "V", "W", "X", "Y", "Z", "_", "a", "b", "c", "d", "e", "f", "g",
      "h", "i", "j", "k", "l", "m", "n", "o", "p", "q", "r", "s", "t", "u", "v", "w",
      "x", "y", "z">>

Ord(c) == CHOOSE i \in 1..Len(CodePoints) : CodePoints[i] = c

\* a < b for str
RECURSIVE StrLess(_, _)
StrLess(a, b) ==
    IF b = <<>> THEN FALSE
    ELSE IF a = <<>> THEN TRUE
    ELSE IF a[1] = b[1] THEN StrLess(Tail(a), Tail(b))
    ELSE Ord(a[1]) < Ord(b[1])

\* sorted(set(r)) for a list of str, given the set
RECURSIVE SortedSet(_)
SortedSet(S) ==
    IF S = {} THEN <<>>
    ELSE Bind(CHOOSE x \in S : \A y \in S \ {x} : StrLess(x, y),
              LAMBDA m : <<m>> \o SortedSet(S \ {m}))

Range(q) == {q[i] : i \in 1..Len(q)}

(***************************************************************************)
(* posixpath and pathlib                                                   *)
(***************************************************************************)

\* os.path.dirname
dirname(p) ==
    Bind(SubSeq(p, 1, RFind(p, <<"/">>)),
         LAMBDA head : Bind(RStrip(head, "/"),
                            LAMBDA stripped : IF head # <<>> /\ stripped # <<>>
                                              THEN stripped ELSE head))

\* os.path.basename
basename(p) == From(p, RFind(p, <<"/">>))

\* os.path.join(a, b)
join(a, b) ==
    IF StartsWith(b, <<"/">>) THEN b
    ELSE IF a = <<>> \/ a[Len(a)] = "/" THEN a \o b
    ELSE a \o <<"/">> \o b

\* the components of a path that name something: no empty and no "." components
Parts(p) == SelectSeq(Split(p, "/"), LAMBDA c : c # <<>> /\ c # <<".">>)

\* os.path.normpath on a path without ".." components
normpath(p) ==
    Bind(Join(Parts(p), "/"),
         LAMBDA body : IF StartsWith(p, <<"/">>) THEN <<"/">> \o body
                       ELSE IF body = <<>> THEN <<".">> ELSE body)

\* the working directory of the process
Cwd == <<"/", "w">>

\* the absolute, normalised name of the object a path refers to
Resolve(p) == normpath(IF StartsWith(p, <<"/">>) THEN p ELSE join(Cwd, p))

\* a path whose last component is empty or "." can only name a directory
NeedsDir(p) == Bind(Split(p, "/"), LAMBDA cs : cs[Len(cs)] \in {<<>>, <<".">>})

\* os.path.isfile / os.path.isdir on a file system fs = [files, dirs]
isfile(fs, p) == p # <<>> /\ ~NeedsDir(p) /\ Resolve(p) \in fs.files
isdir(fs, p) == p # <<>> /\ Resolve(p) \in fs.dirs

\* the absolute normalised path made of the first n of the components cs
Prefix(cs, n) == <<"/">> \o Join(SubSeq(cs, 1, n), "/")

\* an absolute normalised path and every directory above it
Ancestors(c) == Bind(Parts(c), LAMBDA cs : {Prefix(cs, n) : n \in 0..Len(cs)})

\* the directory an absolute normalised path is an entry of
Parent(c) == Bind(Parts(c), LAMBDA cs : Prefix(cs, Len(cs) - 1))

\* Path(dir).glob("*"): the entries directly inside dir
Children(fs, dir) ==
    Bind(Resolve(dir),
         LAMBDA d : {c \in (fs.files \cup fs.dirs) \ {d, <<"/">>} : Parent(c) = d})

(***************************************************************************)
(* Python values (what json.load returns, and None)                        *)
(***************************************************************************)

Str(s) == [t |-> "str", v |-> s]
Num(n) == [t |-> "num", v |-> n]
List(q) == [t |-> "list", v |-> q]
Dict(f) == [t |-> "dict", v |-> f]
None == [t |-> "none", v |-> 0]

\* the result of an operation that may raise: err is "ok" or the exception's name
Ok(val) == [err |-> "ok", val |-> val]
Raise(e) == [err |-> e, val |-> None]

\* key in o: a dict has the key, a str has it as a substring; a number and None
\* are not iterable
In(key, o) ==
    CASE o.t = "dict" -> Ok(key \in DOMAIN o.v)
      [] o.t = "str" -> Ok(Contains(o.v, key))
      [] o.t = "list" -> Ok(\E i \in 1..Len(o.v) : o.v[i] = Str(key))
      [] OTHER -> Raise("TypeError")

\* o[key] for a str key
GetItem(o, key) ==
    CASE o.t = "dict" -> IF key \in DOMAIN o.v THEN Ok(o.v[key]) ELSE Raise("KeyError")
      [] OTHER -> Raise("TypeError")

\* bool(c) for None and str
Truthy(c) == c.t = "str" /\ c.v # <<>>

(***************************************************************************)
(* pathformatter.py                                                        *)
(***************************************************************************)

\* PathFormatter.format_file_name over the file system fs
PathFormatter_format_file_name(fs, path) ==
    IF path.t # "str" THEN (IF path.t = "num" THEN Ok(None) ELSE Raise("TypeError"))
    ELSE IF isfile(fs, path.v) \/ isdir(fs, path.v)
         THEN Ok(Str(dirname(path.v) \o S_marker \o basename(path.v)))
         ELSE Ok(None)

\* str(e.relative_to(Path(p))) for e = Path(path) / child
RelativeTo(path, child, p) ==
    Bind(Parts(path) \o <<child>>,
         LAMBDA e : Join(SubSeq(e, Len(Parts(p)) + 1, Len(e)), "/"))

\* a list back to front
Reverse(q) == [i \in 1..Len(q) |-> q[Len(q) + 1 - i]]

\* pp.glob("*"): the entries of a directory in the order the file system yields them,
\* which is not specified: fs.glob says which of two orders this file system has
Glob(fs, dir) ==
    IF fs.glob = "ascending" THEN SortedSet(Children(fs, dir))
    ELSE Reverse(SortedSet(Children(fs, dir)))

\* the directory branch of PathFormatter.format_expanding_dirs with p = dirname(path)
ExpandDir(fs, path, p) ==
    Bind(SelectSeq(Glob(fs, path),
                   LAMBDA e : ~StartsWith(basename(e), <<".">>) /\ e \in fs.files),
         LAMBDA es : [i \in 1..Len(es) |-> p \o S_marker \o RelativeTo(path, basename(es[i]), p)])

\* PathFormatter.format_expanding_dirs over the file system fs
PathFormatter_format_expanding_dirs(fs, path) ==
    IF path.t # "str" THEN (IF path.t = "num" THEN Ok(<<>>) ELSE Raise("TypeError"))
    ELSE Bind(dirname(path.v),
              LAMBDA p : IF isfile(fs, path.v) THEN Ok(<<p \o S_marker \o basename(path.v)>>)
                         ELSE IF isdir(fs, path.v) THEN Ok(ExpandDir(fs, path.v, p))
                         ELSE Ok(<<>>))

\* ZipPathFormatter(zip, prefix): names = zip.namelist()
ZipPathFormatter(names, prefix) == [prefix |-> prefix, names |-> names]

\* ZipPathFormatter.format_file_name
ZipPathFormatter_format_file_name(zpf, path) ==
    IF path.t # "str" THEN Raise("AttributeError")
    ELSE IF StartsWith(path.v, zpf.prefix)
         THEN Ok(Str(zpf.prefix \o S_marker \o From(path.v, Len(zpf.prefix) + 1)))
         ELSE Ok(path)

\* format_expanding_dirs that takes every name beginning with path
zip_expand_without_boundary(zpf, path) ==
    IF path.t # "str" THEN Raise("TypeError")
    ELSE IF path.v \in Range(zpf.names) THEN Ok(<<path.v>>)
    ELSE Ok(SelectSeq(zpf.names, LAMBDA n : StartsWith(n, path.v)))

\* ZipPathFormatter.format_expanding_dirs
ZipPathFormatter_format_expanding_dirs(zpf, path) ==
    IF path.t # "str" THEN Raise("TypeError")
    ELSE IF path.v \in Range(zpf.names) THEN Ok(<<path.v>>)
    ELSE Ok(SelectSeq(zpf.names, LAMBDA n : StartsWith(n, path.v \o <<"/">>)))

\* a bound method passed as the check argument: chk = [fn, self]
Check(chk, val) ==
    CASE chk.fn = "PathFormatter.format_file_name" -> PathFormatter_format_file_name(chk.self, val)
      [] chk.fn = "PathFormatter.format_expanding_dirs" -> PathFormatter_format_expanding_dirs(chk.self, val)
      [] chk.fn = "ZipPathFormatter.format_file_name" -> ZipPathFormatter_format_file_name(chk.self, val)
      [] chk.fn = "ZipPathFormatter.format_expanding_dirs" -> ZipPathFormatter_format_expanding_dirs(chk.self, val)

(***************************************************************************)
(* scenecollection.py: the callbacks and the tree path visitor             *)
(*                                                                         *)
(* A callback is a record cb; a call returns [o, acc, err]: the container  *)
(* as the call leaves it, what the callback has collected, and "ok" or the *)
(* exception that ended the call.                                          *)
(***************************************************************************)

Visit(o, acc, err) == [o |-> o, acc |-> acc, err |-> err]

\* _find_assets.add: r.extend(check(o[k]))
add(cb, o, k, r) ==
    Bind(GetItem(o, k),
         LAMBDA item :
            IF item.err # "ok" THEN Visit(o, r, item.err)
            ELSE Bind(Check(cb.check, item.val),
                      LAMBDA c : IF c.err # "ok" THEN Visit(o, r, c.err)
                                 ELSE Visit(o, r \o c.val, "ok")))

\* the assignment of update_path: o[k] = base + "/" + c.partition("/./")[2]
rewrite(o, k, base, c) ==
    [o EXCEPT !.v[k] = Str(base \o <<"/">> \o PartitionTail(c, S_marker))]

\* _update_assets.update_path: c = check(o[k]); if c: o[k] = ...
update_path(cb, o, k, acc) ==
    Bind(GetItem(o, k),
         LAMBDA item :
            IF item.err # "ok" THEN Visit(o, acc, item.err)
            ELSE Bind(Check(cb.check, item.val),
                      LAMBDA c : IF c.err # "ok" THEN Visit(o, acc, c.err)
                                 ELSE IF Truthy(c.val)
                                      THEN Visit(rewrite(o, k, cb.base, c.val.v), acc, "ok")
                                 ELSE Visit(o, acc, "ok")))

\* test_dict_path.u: r.append((k, d[k]))
u(cb, d, k, r) ==
    Bind(GetItem(d, k),
         LAMBDA item : IF item.err # "ok" THEN Visit(d, r, item.err)
                       ELSE Visit(d, Append(r, <<k, item.val>>), "ok"))

\* callback(o, k)
Call(cb, o, k, acc) ==
    CASE cb.kind = "add" -> add(cb, o, k, acc)
      [] cb.kind = "update_path" -> update_path(cb, o, k, acc)
      [] cb.kind = "u" -> u(cb, o, k, acc)

RECURSIVE dict_path_list(_, _, _, _, _)
RECURSIVE dict_path_keys(_, _, _, _)

\* the loop "for i in o: _dict_path(i, path, callback)" from element n on
dict_path_list(o, n, path, cb, acc) ==
    IF n > Len(o.v) THEN Visit(o, acc, "ok")
    ELSE Bind(dict_path_keys(o.v[n], path, cb, acc),
              LAMBDA r : IF r.err # "ok" THEN Visit([o EXCEPT !.v[n] = r.o], r.acc, r.err)
                         ELSE dict_path_list([o EXCEPT !.v[n] = r.o], n + 1, path, cb, r.acc))

\* the last branch of _dict_path: _dict_path(o[path[0]], path[1:], callback)
dict_path_descend(o, path, cb, acc) ==
    Bind(GetItem(o, path[1]),
         LAMBDA item :
            IF item.err # "ok" THEN Visit(o, acc, item.err)
            ELSE Bind(dict_path_keys(item.val, Tail(path), cb, acc),
                      LAMBDA r : Visit([o EXCEPT !.v[path[1]] = r.o], r.acc, r.err)))

\* _dict_path once path is a list of keys
dict_path_keys(o, path, cb, acc) ==
    IF o.t = "list" THEN dict_path_list(o, 1, path, cb, acc)
    ELSE IF Len(path) = 0 THEN Visit(o, acc, "ok")
    ELSE Bind(In(path[1], o),
              LAMBDA has : IF has.err # "ok" THEN Visit(o, acc, has.err)
                           ELSE IF Len(path) = 1 /\ has.val THEN Call(cb, o, path[1], acc)
                           ELSE IF has.val THEN dict_path_descend(o, path, cb, acc)
                           ELSE Visit(o, acc, "ok"))

\* ObsStudioSceneCollection._dict_path: path is a str ("a.c") or a list of keys
dict_path(o, path, cb, acc) ==
    dict_path_keys(o, IF path.t = "str" THEN Split(path.v, ".") ELSE path.v, cb, acc)

(***************************************************************************)
(* scenecollection.py: ObsStudioSceneCollection                            *)
(***************************************************************************)

asset_path_in_archive == S_assets

\* the table with "xshm_input" of Darwin mapped like "v4l2_input"
source_id_mappings_collapsed ==
    << [os |-> "Darwin",
        map |-> << <<S_v4l2_input, S_av_capture_input>>,
                   <<S_xshm_input, S_av_capture_input>> >>],
       [os |-> "Windows",
        map |-> << <<S_v4l2_input, S_dshow_input>>,
                   <<S_xshm_input, S_monitor_capture>> >>] >>

\* mappings that name a variant of the asset registry as the Linux id of the camera
source_id_mappings_onto_registry ==
    << [os |-> "Darwin",
        map |-> << <<S_ffmpeg_source, S_v4l2_input>>,
                   <<S_xshm_input, S_display_capture>> >>],
       [os |-> "Windows",
        map |-> << <<S_v4l2_input, S_dshow_input>>,
                   <<S_xshm_input, S_monitor_capture>> >>] >>

\* Maps the source ids as used in Linux to macOS or Windows, in the order the
\* dictionaries are written
source_id_mappings ==
    << [os |-> "Darwin",
        map |-> << <<S_v4l2_input, S_av_capture_input>>,
                   <<S_xshm_input, S_display_capture>> >>],
       [os |-> "Windows",
        map |-> << <<S_v4l2_input, S_dshow_input>>,
                   <<S_xshm_input, S_monitor_capture>> >>] >>

\* the versioned_id tests of _process_assets_in_sources, in the order they are made,
\* each with the path handed to _dict_path
source_asset_fields ==
    << <<S_ffmpeg_source, S_settings_local_file>>,
       <<S_image_source, S_settings_file>>,
       <<S_slideshow, S_settings_files_value>>,
       <<S_vlc_source, S_settings_playlist_value>> >>

\* the id test of _process_assets_in_transitions
transition_asset_fields == << <<S_obs_stinger_transition, S_settings_path>> >>

\* whether "for x in o" raises, and whether it has no element to visit
Iterable(o) == o.t \in {"list", "dict", "str"}
Empty(o) == IF o.t = "dict" THEN DOMAIN o.v = {} ELSE Len(o.v) = 0

RECURSIVE process_element(_, _, _, _, _, _)
\* the element handed to _dict_path without a test of its versioned_id or id
process_element_untested(el, prop, fields, m, update, acc) ==
    IF m > Len(fields) THEN Visit(el, acc, "ok")
    ELSE Bind(dict_path(el, Str(fields[m][2]), update, acc),
              LAMBDA r : IF r.err # "ok" THEN r
                         ELSE process_element(r.o, prop, fields, m + 1, update, r.acc))

\* the "if" statements of one element of a loop of _process_assets_in_*, from the
\* m-th on: if element[prop] == fields[m][1]: _dict_path(element, fields[m][2], update)
process_element(el, prop, fields, m, update, acc) ==
    IF m > Len(fields) THEN Visit(el, acc, "ok")
    ELSE Bind(GetItem(el, prop),
              LAMBDA vid :
                 IF vid.err # "ok" THEN Visit(el, acc, vid.err)
                 ELSE IF vid.val = Str(fields[m][1])
                      THEN Bind(dict_path(el, Str(fields[m][2]), update, acc),
                                LAMBDA r : IF r.err # "ok" THEN r
                                           ELSE process_element(r.o, prop, fields, m + 1, update, r.acc))
                 ELSE process_element(el, prop, fields, m + 1, update, acc))

RECURSIVE process_loop(_, _, _, _, _, _)
\* the loop "for el in lst" of _process_assets_in_*, from element n on
process_loop(lst, n, prop, fields, update, acc) ==
    IF n > Len(lst.v) THEN Visit(lst, acc, "ok")
    ELSE Bind(process_element(lst.v[n], prop, fields, 1, update, acc),
              LAMBDA r : IF r.err # "ok" THEN Visit([lst EXCEPT !.v[n] = r.o], r.acc, r.err)
                         ELSE process_loop([lst EXCEPT !.v[n] = r.o], n + 1, prop, fields, update, r.acc))

\* the loop of _process_assets_in_sources / _process_assets_in_transitions over
\* scenes[key]
process_assets_in(scenes, key, prop, fields, update, acc) ==
    Bind(GetItem(scenes, key),
         LAMBDA lst :
            IF lst.err # "ok" THEN Visit(scenes, acc, lst.err)
            ELSE IF lst.val.t # "list"
                 THEN Visit(scenes, acc,
                            IF Iterable(lst.val) /\ Empty(lst.val) THEN "ok" ELSE "TypeError")
            ELSE Bind(process_loop(lst.val, 1, prop, fields, update, acc),
                      LAMBDA r : Visit([scenes EXCEPT !.v[key] = r.o], r.acc, r.err)))

\* ObsStudioSceneCollection._process_assets_in_sources, and then
\* ObsStudioSceneCollection._process_assets_in_transitions on what it leaves
process_assets(scenes, update) ==
    Bind(process_assets_in(scenes, S_sources, S_versioned_id, source_asset_fields, update, <<>>),
         LAMBDA a : IF a.err # "ok" THEN a
                    ELSE process_assets_in(a.o, S_transitions, S_id, transition_asset_fields,
                                           update, a.acc))

\* _find_assets that returns r as the callbacks filled it
find_assets_unsorted(scene, check) ==
    Bind(process_assets(scene, [kind |-> "add", check |-> check]),
         LAMBDA r : IF r.err # "ok" THEN Raise(r.err) ELSE Ok(r.acc))

\* ObsStudioSceneCollection._find_assets
find_assets(scene, check) ==
    Bind(process_assets(scene, [kind |-> "add", check |-> check]),
         LAMBDA r : IF r.err # "ok" THEN Raise(r.err) ELSE Ok(SortedSet(Range(r.acc))))

\* ObsStudioSceneCollection._update_assets: the scenes as the call leaves them
update_assets(scene, base, check) ==
    Bind(process_assets(scene, [kind |-> "update_path", base |-> base, check |-> check]),
         LAMBDA r : [err |-> r.err, val |-> r.o])

RECURSIVE map_pairs(_, _, _, _, _)
\* the loops of _map_source_id over the (k, v) pairs: the first pair whose from-th
\* component equals source[prop] replaces it by the to-th component
map_pairs(source, prop, pairs, from, to) ==
    IF pairs = <<>> THEN Ok(source)
    ELSE Bind(GetItem(source, prop),
              LAMBDA cur : IF cur.err # "ok" THEN Raise(cur.err)
                           ELSE IF cur.val = Str(pairs[1][from])
                                THEN Ok([source EXCEPT !.v[prop] = Str(pairs[1][to])])
                           ELSE map_pairs(source, prop, Tail(pairs), from, to))

RECURSIVE Flatten(_)
Flatten(qq) == IF qq = <<>> THEN <<>> ELSE qq[1] \o Flatten(Tail(qq))

\* the (k, v) pairs _map_source_id goes through for a system, in order; for "Linux"
\* those of every system
pairs_of(system) ==
    Flatten([i \in 1..Len(source_id_mappings) |->
                IF system = "Linux" \/ source_id_mappings[i].os = system
                THEN source_id_mappings[i].map ELSE <<>>])

\* _map_source_id that returns at once when system is "Linux"
map_source_id_linux_unchanged(source, prop, system) ==
    IF system = "Linux" THEN Ok(source)
    ELSE IF \A i \in 1..Len(source_id_mappings) : source_id_mappings[i].os # system
         THEN Raise("KeyError")
    ELSE map_pairs(source, prop, pairs_of(system), 1, 2)

\* ObsStudioSceneCollection._map_source_id
map_source_id(source, prop, system) ==
    IF system = "Linux" THEN map_pairs(source, prop, pairs_of(system), 2, 1)
    ELSE IF \A i \in 1..Len(source_id_mappings) : source_id_mappings[i].os # system
         THEN Raise("KeyError")
    ELSE map_pairs(source, prop, pairs_of(system), 1, 2)

\* the body of the loop of _fix_source_ids without its second statement
fix_source_id_only(s, system) ==
    Bind(map_source_id(s, S_id, system),
         LAMBDA a : IF a.err # "ok" THEN [err |-> a.err, val |-> s] ELSE a)

\* the body of the loop of _fix_source_ids
fix_source(s, system) ==
    Bind(map_source_id(s, S_id, system),
         LAMBDA a : IF a.err # "ok" THEN [err |-> a.err, val |-> s]
                    ELSE Bind(map_source_id(a.val, S_versioned_id, system),
                              LAMBDA b : IF b.err # "ok" THEN [err |-> b.err, val |-> a.val]
                                         ELSE b))

RECURSIVE fix_loop(_, _, _)
\* the loop of _fix_source_ids from source n on
fix_loop(lst, n, system) ==
    IF n > Len(lst.v) THEN Ok(lst)
    ELSE Bind(fix_source(lst.v[n], system),
              LAMBDA r : IF r.err # "ok" THEN [err |-> r.err, val |-> [lst EXCEPT !.v[n] = r.val]]
                         ELSE fix_loop([lst EXCEPT !.v[n] = r.val], n + 1, system))

\* ObsStudioSceneCollection._fix_source_ids: the scenes as the call leaves them
fix_source_ids(scenes, system) ==
    Bind(GetItem(scenes, S_sources),
         LAMBDA lst :
            IF lst.err # "ok" THEN [err |-> lst.err, val |-> scenes]
            ELSE IF lst.val.t # "list"
                 THEN [err |-> IF Iterable(lst.val) /\ Empty(lst.val) THEN "ok" ELSE "TypeError",
                       val |-> scenes]
            ELSE Bind(fix_loop(lst.val, 1, system),
                      LAMBDA r : [err |-> r.err, val |-> [scenes EXCEPT !.v[S_sources] = r.val]]))

(***************************************************************************)
(* Files and archives: json, zipfile, os                                   *)
(*                                                                         *)
(* fs = [files, dirs] holds the absolute normalised paths that exist;      *)
(* store maps a collection name to the content of <scenes path>/<name>.json;*)
(* an archive is the sequence of its members [name, data].                 *)
(***************************************************************************)

\* the content of a file: a JSON document, or bytes that are not JSON
Json(doc) == [kind |-> "json", doc |-> doc]
Bytes == [kind |-> "bytes", doc |-> None]

\* json.load
json_load(data) == IF data.kind = "json" THEN Ok(data.doc) ELSE Raise("JSONDecodeError")

\* ZipFile.namelist
namelist(zip) == [i \in 1..Len(zip) |-> zip[i].name]

\* ZipFile.open(name, "r"): the last member of that name
zip_open(zip, name) ==
    Bind(Last({i \in 1..Len(zip) : zip[i].name = name}),
         LAMBDA i : IF i = 0 THEN Raise("KeyError") ELSE Ok(zip[i].data))

\* ZipFile.writestr
zip_writestr(zip, name, data) == Append(zip, [name |-> name, data |-> data])

\* ZipFile.write(filename, arcname): the archive as the call leaves it
zip_write(zip, fs, filename, arcname) ==
    IF isfile(fs, filename)
    THEN Ok(Append(zip, [name |-> LStrip(normpath(arcname), "/"), data |-> Bytes]))
    ELSE IF isdir(fs, filename)
    THEN Ok(Append(zip, [name |-> LStrip(normpath(arcname), "/") \o <<"/">>, data |-> Bytes]))
    ELSE [err |-> "FileNotFoundError", val |-> zip]

\* os.makedirs(d, exist_ok=True): the file system as the call leaves it
makedirs(fs, d) ==
    Bind(Resolve(d),
         LAMBDA r : IF Ancestors(r) \cap fs.files = {}
                    THEN Ok([fs EXCEPT !.dirs = @ \cup Ancestors(r)])
                    ELSE [err |-> IF r \in fs.files THEN "FileExistsError"
                                  ELSE "NotADirectoryError",
                          val |-> fs])

\* open(p, "wb") and the copy into it: the file system as the call leaves it
open_wb(fs, p) ==
    Bind(Resolve(p),
         LAMBDA r : IF r \in fs.dirs \/ NeedsDir(p) THEN [err |-> "IsADirectoryError", val |-> fs]
                    ELSE IF Parent(r) \in fs.files THEN [err |-> "NotADirectoryError", val |-> fs]
                    ELSE IF Parent(r) \notin fs.dirs THEN [err |-> "FileNotFoundError", val |-> fs]
                    ELSE Ok([fs EXCEPT !.files = @ \cup {r}]))

S_OBS == <<"O", "B", "S">>
S_Scene_Assets == <<"S", "c", "e", "n", "e", "-", "A", "s", "s", "e", "t", "s">>

\* PathHelper.get_scenes_path where platform.system() is neither "Windows" nor
\* "Darwin": ~/.config/obs-studio/basic/scenes expanded
get_scenes_path == <<"/", "h", "/", ".", "c", "o", "n", "f", "i", "g", "/", "o", "b", "s", "-", "s", "t", "u", "d", "i", "o", "/", "b", "a", "s", "i", "c", "/", "s", "c", "e", "n", "e", "s">>

\* PathHelper.get_documents_path: ~/Documents expanded
get_documents_path == <<"/", "h", "/", "D", "o", "c", "u", "m", "e", "n", "t", "s">>

(***************************************************************************)
(* scenecollection.py: construction, export, import                        *)
(***************************************************************************)

\* ObsStudioSceneCollection.__init__
init(file, path) ==
    Bind(json_load(file),
         LAMBDA j : IF j.err # "ok" THEN Raise(j.err)
                    ELSE Ok([assets |-> <<>>, counts |-> <<>>, name |-> Str(<<"U", "n", "t", "i", "t", "l", "e", "d">>),
                             nsources |-> 0, nscenes |-> 0, scenes |-> j.val, path |-> path]))

RECURSIVE count_ids(_, _, _)
\* the loop of _parse over the sources from source n on: counts is the sequence of
\* the pairs <<id, count>> in the order the keys were inserted
count_ids(lst, n, counts) ==
    IF n > Len(lst) THEN Ok(counts)
    ELSE Bind(GetItem(lst[n], S_id),
              LAMBDA i : IF i.err # "ok" THEN [err |-> i.err, val |-> counts]
                         ELSE IF i.val.t \in {"list", "dict"} THEN [err |-> "TypeError", val |-> counts]
                         ELSE IF \E c \in 1..Len(counts) : counts[c][1] = i.val
                              THEN count_ids(lst, n + 1,
                                             [c \in 1..Len(counts) |->
                                                IF counts[c][1] = i.val
                                                THEN <<counts[c][1], counts[c][2] + 1>>
                                                ELSE counts[c]])
                         ELSE count_ids(lst, n + 1, Append(counts, <<i.val, 1>>)))

\* _parse after the loop over the sources: name, nsources, nscenes, _fix_source_ids()
parse_counted(self, counts) ==
    Bind(GetItem(self.scenes, S_name),
         LAMBDA nm : IF nm.err # "ok" THEN [err |-> nm.err, val |-> [self EXCEPT !.counts = counts]]
                     ELSE Bind(fix_source_ids(self.scenes, "Linux"),
                               LAMBDA f : [err |-> f.err,
                                           val |-> [self EXCEPT !.counts = counts,
                                                                !.name = nm.val,
                                                                !.nsources = Len(self.scenes.v[S_sources].v) - counts[1][2],
                                                                !.nscenes = counts[1][2],
                                                                !.scenes = f.val]]))

\* _parse after _find_assets: a successful _find_assets has iterated scenes["sources"]
parse_found(self) ==
    IF self.scenes.v[S_sources].t # "list" THEN parse_counted(self, << <<Str(S_scene), 0>> >>)
    ELSE Bind(count_ids(self.scenes.v[S_sources].v, 1, << <<Str(S_scene), 0>> >>),
              LAMBDA c : IF c.err # "ok" THEN [err |-> c.err, val |-> [self EXCEPT !.counts = c.val]]
                         ELSE parse_counted(self, c.val))

\* ObsStudioSceneCollection._parse: the object as the call leaves it
parse(self, check) ==
    Bind(find_assets(self.scenes, check),
         LAMBDA a : IF a.err # "ok" THEN [err |-> a.err, val |-> self]
                    ELSE parse_found([self EXCEPT !.assets = a.val]))

\* ObsStudioSceneCollection.from_path for a collection name: no file of that name
\* exists, the collection is looked up in the scenes directory
from_path(fs, store, path) ==
    IF isfile(fs, path) THEN Raise("JSONDecodeError")
    ELSE IF path \notin DOMAIN store THEN Raise("FileNotFoundError")
    ELSE Bind(init(store[path], join(get_scenes_path, path \o S_dot_json)),
              LAMBDA o : IF o.err # "ok" THEN o
                         ELSE parse(o.val, [fn |-> "PathFormatter.format_expanding_dirs",
                                            self |-> fs]))

RECURSIVE export_assets(_, _, _, _)
\* the loop of export_scenes over self.assets from asset n on
export_assets(assets, n, fs, zip) ==
    IF n > Len(assets) THEN Ok(zip)
    ELSE Bind(zip_write(zip, fs, assets[n],
                        asset_path_in_archive \o <<"/">> \o PartitionTail(assets[n], S_marker)),
              LAMBDA w : IF w.err # "ok" THEN w ELSE export_assets(assets, n + 1, fs, w.val))

\* the result of export_scenes: the object and the archive as the call leaves them
Exported(err, self, zip) == [err |-> err, self |-> self, zip |-> zip]

\* ObsStudioSceneCollection.export_scenes
export_scenes(self, fs) ==
    Bind(update_assets(self.scenes, asset_path_in_archive,
                       [fn |-> "PathFormatter.format_file_name", self |-> fs]),
         LAMBDA up :
            IF up.err # "ok" THEN Exported(up.err, [self EXCEPT !.scenes = up.val], <<>>)
            ELSE Bind(export_assets(self.assets, 1, fs,
                                    zip_writestr(<<>>, S_scene_collection_json, Json(up.val))),
                      LAMBDA z : Exported(z.err, [self EXCEPT !.scenes = up.val], z.val)))

\* the body of the loop of import_scenes for member a
extract(a, asset_dir, fs) ==
    Bind(join(asset_dir, From(a, Len(asset_path_in_archive) + 1)),
         LAMBDA p : Bind(makedirs(fs, dirname(p)),
                         LAMBDA m : IF m.err # "ok" THEN m ELSE open_wb(m.val, p)))

RECURSIVE import_assets(_, _, _, _)
\* the loop of import_scenes over zip.namelist() from member n on
import_assets(names, n, asset_dir, fs) ==
    IF n > Len(names) THEN Ok(fs)
    ELSE IF ~StartsWith(names[n], asset_path_in_archive)
         THEN import_assets(names, n + 1, asset_dir, fs)
    ELSE Bind(extract(names[n], asset_dir, fs),
              LAMBDA r : IF r.err # "ok" THEN r ELSE import_assets(names, n + 1, asset_dir, r.val))

\* the result of import_scenes: the object, the file system and the scenes directory
\* as the call leaves them
Imported(err, self, fs, store) == [err |-> err, self |-> self, fs |-> fs, store |-> store]

\* import_scenes from the write of the scenes file on
import_write(zip, self, asset_dir, fs, store) ==
    Bind([n \in DOMAIN store \cup {self.name.v} |->
            IF n = self.name.v THEN Json(self.scenes) ELSE store[n]],
         LAMBDA written :
            Bind(makedirs(fs, asset_dir),
                 LAMBDA m : IF m.err # "ok" THEN Imported(m.err, self, m.val, written)
                            ELSE Bind(import_assets(namelist(zip), 1, asset_dir, m.val),
                                      LAMBDA x : Imported(x.err, self, x.val, written))))

\* import_scenes from _fix_source_ids(platform.system()) on
import_fix(zip, zpf, self, asset_dir, system, fs, store) ==
    Bind(fix_source_ids(self.scenes, system),
         LAMBDA f :
            IF f.err # "ok" THEN Imported(f.err, [self EXCEPT !.scenes = f.val], fs, store)
            ELSE Bind(update_assets(f.val, asset_dir,
                                    [fn |-> "ZipPathFormatter.format_file_name", self |-> zpf]),
                      LAMBDA up :
                         IF up.err # "ok"
                         THEN Imported(up.err, [self EXCEPT !.scenes = up.val], fs, store)
                         ELSE import_write(zip, [self EXCEPT !.scenes = up.val], asset_dir, fs, store)))

\* import_scenes from "if name:" on
import_named(zip, zpf, self, name, asset_dir, system, fs, store) ==
    Bind(IF Truthy(name) THEN name ELSE self.name,
         LAMBDA nm :
            IF ~Truthy(asset_dir) /\ nm.t # "str"
            THEN Imported("TypeError", [self EXCEPT !.name = nm, !.scenes.v[S_name] = nm], fs, store)
            ELSE import_fix(zip, zpf, [self EXCEPT !.name = nm, !.scenes.v[S_name] = nm],
                            IF Truthy(asset_dir) THEN asset_dir.v
                            ELSE join(join(join(get_documents_path, S_OBS), S_Scene_Assets), nm.v),
                            system, fs, store))

\* import_scenes from the construction of the ZipPathFormatter on
import_parse(zip, zpf, self, name, asset_dir, system, fs, store) ==
    Bind(parse(self, [fn |-> "ZipPathFormatter.format_expanding_dirs", self |-> zpf]),
         LAMBDA q : IF q.err # "ok" THEN Imported(q.err, q.val, fs, store)
                    ELSE import_named(zip, zpf, q.val, name, asset_dir, system, fs, store))

\* import_scenes that creates the asset directory before it opens the document
import_scenes_makedirs_first(zip, name, asset_dir, system, fs, store) ==
    Bind(makedirs(fs, IF Truthy(asset_dir) THEN asset_dir.v
                      ELSE join(join(get_documents_path, S_OBS), S_Scene_Assets)),
         LAMBDA m :
            Bind(zip_open(zip, S_scene_collection_json),
                 LAMBDA j :
                    IF j.err # "ok" THEN Imported(j.err, None, m.val, store)
                    ELSE Bind(init(j.val, None),
                              LAMBDA o : IF o.err # "ok" THEN Imported(o.err, None, m.val, store)
                                         ELSE import_parse(zip, ZipPathFormatter(namelist(zip), asset_path_in_archive),
                                                           o.val, name, asset_dir, system, m.val, store))))

\* ObsStudioSceneCollection.import_scenes on a host where platform.system() is system
import_scenes(zip, name, asset_dir, system, fs, store) ==
    Bind(zip_open(zip, S_scene_collection_json),
         LAMBDA j :
            IF j.err # "ok" THEN Imported(j.err, None, fs, store)
            ELSE Bind(init(j.val, None),
                      LAMBDA o : IF o.err # "ok" THEN Imported(o.err, None, fs, store)
                                 ELSE import_parse(zip, ZipPathFormatter(namelist(zip), asset_path_in_archive),
                                                   o.val, name, asset_dir, system, fs, store)))

(***************************************************************************)
(* The documents, files and archives the operations are run on             *)
(***************************************************************************)

\* the longest list of sources in a document
MaxSources == 2
\* the longest list of transitions in a document
MaxTransitions == 1
\* the most sources and transitions a document has together
MaxElements == 2
\* the most asset files removed between loading and exporting a collection
MaxRemovals == 1

P_u_f == <<"/", "u", "/", "f">>
P_u_dot_f == <<"/", "u", "/", ".", "/", "f">>
P_u_g == <<"/", "u", "/", "g">>
\* a file named like /u/f in another directory
P_w_f == <<"/", "w", "/", "f">>

P_v_f == <<"/", "v", "/", "f">>
P_D == <<"/", "D">>
P_assets_f == <<"a", "s", "s", "e", "t", "s", "/", "f">>
P_assets_g == <<"a", "s", "s", "e", "t", "s", "/", "g">>
S_T == <<"T">>
S_N == <<"N">>
S_browser_source == <<"b", "r", "o", "w", "s", "e", "r", "_", "s", "o", "u", "r", "c", "e">>
S_cut_transition == <<"c", "u", "t", "_", "t", "r", "a", "n", "s", "i", "t", "i", "o", "n">>

\* the dict with the given <<key, value>> items
Obj(kv) ==
    Dict([k \in {kv[i][1] : i \in 1..Len(kv)} |->
            kv[CHOOSE i \in 1..Len(kv) : kv[i][1] = k][2]])

\* the files and directories present before any operation: /u/f is a file, /u/g does
\* not exist, /v/f is a directory with two files, a hidden file and a sub-directory
InitialFs ==
    [glob |-> "ascending",
     files |-> {P_u_f, P_w_f, <<"/", "v", "/", "f", "/", "x">>, <<"/", "v", "/", "f", "/", "y">>, <<"/", "v", "/", "f", "/", ".", "h">>, <<"/", "v", "/", "f", "/", "s", "/", "z">>},
     dirs |-> {<<"/">>, <<"/", "u">>, <<"/", "v">>, <<"/", "v", "/", "f">>, <<"/", "v", "/", "f", "/", "s">>, <<"/", "h">>, <<"/", "h", "/", "D", "o", "c", "u", "m", "e", "n", "t", "s">>, <<"/", "w">>}]

\* the orders in which a file system may yield the entries of a directory
GlobOrders == {"ascending", "descending"}

\* the asset files that may disappear while a collection is loaded
Removable == {P_u_f}

\* a source or a transition
Element(id, versioned_id, settings) ==
    Obj(<< <<S_id, Str(id)>>, <<S_versioned_id, Str(versioned_id)>>, <<S_settings, settings>> >>)

\* a list of {"value": path} entries
Values(paths) == List([i \in 1..Len(paths) |-> Obj(<< <<S_value, Str(paths[i])>> >>)])

\* settings that have every key an asset field is named after
AllKeys ==
    Obj(<< <<S_local_file, Str(P_u_f)>>, <<S_file, Str(P_u_f)>>, <<S_path, Str(P_u_f)>>,
           <<S_value, Str(P_u_f)>>, <<S_files, Values(<<P_u_f>>)>>,
           <<S_playlist, Values(<<P_u_f>>)>> >>)

SourceTemplates ==
    { Element(S_ffmpeg_source, S_ffmpeg_source, Obj(<< <<S_local_file, Str(P_u_f)>> >>)),
      Element(S_ffmpeg_source, S_ffmpeg_source, Obj(<< <<S_local_file, Str(P_u_dot_f)>> >>)),
      Element(S_ffmpeg_source, S_ffmpeg_source, Obj(<< <<S_local_file, Str(P_u_g)>> >>)),
      Element(S_ffmpeg_source, S_ffmpeg_source, Obj(<< <<S_local_file, Str(P_w_f)>> >>)),
      Element(S_image_source, S_image_source, Obj(<< <<S_file, Str(P_v_f)>> >>)),
      Element(S_slideshow, S_slideshow, Obj(<< <<S_files, Values(<<P_v_f, P_u_f>>)>> >>)),
      Element(S_vlc_source, S_vlc_source, Obj(<< <<S_playlist, Values(<<P_u_f>>)>> >>)),
      Element(S_browser_source, S_browser_source, AllKeys),
      Element(S_v4l2_input, S_v4l2_input, AllKeys),
      Element(S_xshm_input, S_xshm_input, Obj(<<>>)),
      Element(S_scene, S_scene, Obj(<<>>)) }

TransitionTemplates ==
    { Element(S_obs_stinger_transition, S_obs_stinger_transition, Obj(<< <<S_path, Str(P_u_f)>> >>)),
      Element(S_cut_transition, S_cut_transition, AllKeys) }

\* the lists of at most n elements of S
Seqs(S, n) == UNION {[1..k -> S] : k \in 0..n}

\* a scene collection document
Document(name, sources, transitions) ==
    Obj(<< <<S_name, Str(name)>>, <<S_sources, List(sources)>>,
           <<S_transitions, List(transitions)>> >>)

\* the collections found in the scenes directory
Documents ==
    {Document(S_T, ss, ts) : <<ss, ts>> \in
        {st \in Seqs(SourceTemplates, MaxSources) \X Seqs(TransitionTemplates, MaxTransitions) :
            Len(st[1]) + Len(st[2]) <= MaxElements}}

Member(name, data) == [name |-> name, data |-> data]

\* a document written on other hosts: platform-specific identifiers, and a listed
\* asset that has no member
ForeignDocument ==
    Document(S_T,
             << Element(S_dshow_input, S_display_capture, AllKeys),
                Element(S_av_capture_input, S_ffmpeg_source, Obj(<< <<S_local_file, Str(P_assets_g)>> >>)),
                Element(S_monitor_capture, S_browser_source, Obj(<<>>)),
                Element(S_xshm_input, S_v4l2_input, Obj(<<>>)),
                Element(S_ffmpeg_source, S_ffmpeg_source, Obj(<< <<S_local_file, Str(P_assets_f)>> >>)) >>,
             <<>>)

\* archives that export_scenes did not write
ForeignArchives ==
    { << Member(P_assets_f, Bytes) >>,
      << Member(S_scene_collection_json, Bytes), Member(P_assets_f, Bytes) >>,
      << Member(S_scene_collection_json, Json(Obj(<< <<S_name, Str(S_T)>> >>))),
         Member(P_assets_f, Bytes) >>,
      << Member(S_scene_collection_json, Json(ForeignDocument)), Member(P_assets_f, Bytes) >>,
      << Member(S_scene_collection_json, Json(Document(S_T, <<>>, <<>>))),
         Member(<<"a", "s", "s", "e", "t", "s", "/">>, Bytes), Member(P_assets_f, Bytes) >> }

\* the values of platform.system() on the hosts an archive is imported on
Systems == {"Linux", "Darwin", "Windows"}

\* the name and asset_dir arguments of import_scenes
ImportArguments ==
    { [name |-> None, asset_dir |-> None],
      [name |-> Str(S_N), asset_dir |-> Str(P_D)] }

(***************************************************************************)
(* The identifiers and the trees the translator and the visitor are run on *)
(***************************************************************************)

\* the most translations applied to one source
MaxMapCalls == 2
\* the longest list in a tree
MaxItems == 2

\* identifiers of the table, and one that is not in it
Identifiers ==
    {S_v4l2_input, S_xshm_input, S_av_capture_input, S_display_capture, S_dshow_input,
     S_monitor_capture, S_browser_source}

K_a == <<"a">>
K_b == <<"b">>
K_c == <<"c">>

\* the elements of the lists of test_dict_path, a list, a str and a number
Items ==
    { Obj(<< <<K_b, Str(<<"f", "o", "o">>)>>, <<K_c, Str(<<"b", "a", "r">>)>> >>),
      Obj(<< <<K_b, Str(<<"f", "u", "u">>)>>, <<K_c, Str(<<"b", "a", "z">>)>> >>),
      Obj(<< <<K_b, Str(<<"f", "o", "o">>)>> >>),
      List(<< Obj(<< <<K_c, Str(<<"b", "a", "z">>)>> >>) >>),
      Str(<<"x", "c", "x">>),
      Num(5) }

Trees ==
    {Obj(<< <<K_a, List(q)>> >>) : q \in Seqs(Items, MaxItems)}
        \cup {Obj(<< <<K_a, i>> >>) : i \in Items}

Patterns ==
    { Str(<<"a", ".", "c">>), List(<<K_a, K_c>>), Str(K_a), List(<<K_a>>),
      List(<<>>), List(<<K_a, K_b>>) }

(***************************************************************************)
(* The file systems, archives and paths the formatters are run on          *)
(***************************************************************************)

\* the longest list of member names of an archive
MaxNames == 2

\* the files of InitialFs that may be missing
Optional ==
    {P_u_f, <<"/", "v", "/", "f", "/", "x">>, <<"/", "v", "/", "f", "/", "y">>}

FileSystems ==
    {[InitialFs EXCEPT !.glob = g, !.files = @ \ gone] :
        g \in GlobOrders, gone \in SUBSET Optional}

\* paths of a file, of the same file written with the marker, of nothing, of a
\* directory, of the same directory written with a trailing "/", of a directory
\* without files, and of a file in a sub-directory
FsPaths ==
    {P_u_f, P_u_dot_f, P_u_g, P_v_f, <<"/", "v", "/", "f", "/">>, <<"/", "v">>, <<"/", "v", "/", "f", "/", "s", "/", "z">>}

\* the member names of the archive of TestPathFormatter.setUp
A_image0 == <<"a", "s", "s", "e", "t", "s", "/", "i", "m", "a", "g", "e", "0", ".", "j", "p", "g">>
A_dir_image1 == <<"a", "s", "s", "e", "t", "s", "/", "d", "i", "r", "/", "i", "m", "a", "g", "e", "1", ".", "j", "p", "g">>
A_dir_image2 == <<"a", "s", "s", "e", "t", "s", "/", "d", "i", "r", "/", "i", "m", "a", "g", "e", "2", ".", "j", "p", "g">>
A_image0_1 == <<"a", "s", "s", "e", "t", "s", "/", "i", "m", "a", "g", "e", "0", ".", "j", "p", "g", "1">>

\* a member of a directory whose name begins like that of assets/dir
A_dir1_image3 == <<"a", "s", "s", "e", "t", "s", "/", "d", "i", "r", "1", "/", "i", "m", "a", "g", "e", "3", ".", "j", "p", "g">>

MemberNames == {A_image0, A_dir_image1, A_dir_image2, A_image0_1, A_dir1_image3}

\* the directory asked for in test_zip_formatter
A_dir == <<"a", "s", "s", "e", "t", "s", "/", "d", "i", "r">>

\* a path under the prefix that holds the marker
A_dot_image0 == <<"a", "s", "s", "e", "t", "s", "/", ".", "/", "i", "m", "a", "g", "e", "0", ".", "j", "p", "g">>

\* the paths ZipPathFormatter is asked for: a member, a directory, a member of a
\* directory, a path that holds the marker, a path outside the archive
ZipPaths == {A_image0, A_dir, A_dir_image1, A_dot_image0, P_u_g}

Requests ==
    {[fn |-> f, self |-> x, path |-> Str(q)] :
        f \in {"PathFormatter.format_file_name", "PathFormatter.format_expanding_dirs"},
        x \in FileSystems, q \in FsPaths}
    \cup
    {[fn |-> f, self |-> ZipPathFormatter(n, asset_path_in_archive), path |-> Str(q)] :
        f \in {"ZipPathFormatter.format_file_name", "ZipPathFormatter.format_expanding_dirs"},
        n \in Seqs(MemberNames, MaxNames), q \in ZipPaths}

(***************************************************************************)
(* The state machine                                                       *)
(***************************************************************************)

VARIABLES
    fs,        \* the file system
    store,     \* the scenes directory: collection name -> content of <name>.json
    zip,       \* the archive
    ossc,      \* the ObsStudioSceneCollection object
    pc,        \* where the run is
    op,        \* the operation that ran last
    err,       \* "ok", or the exception the last operation raised
    args,      \* the arguments of import_scenes and the host's platform.system()
    pre,       \* the file system and the scenes directory when import_scenes was called
    removals,  \* the number of files removed
    src,       \* the source a translation is applied to
    trace,     \* the translations applied: [prop, system, before]
    tree,      \* the node handed to _dict_path
    pattern,   \* the path handed to _dict_path
    visited,   \* what _dict_path returned: [o, acc, err]
    request,   \* a call of a formatter: [fn, self, path]
    reply      \* what the formatter returned

vars == <<fs, store, zip, ossc, pc, op, err, args, pre, removals, src, trace, tree,
          pattern, visited, request, reply>>

pipeline == <<fs, store, zip, ossc, op, err, args, pre, removals>>
translator == <<src, trace>>
visitor == <<tree, pattern, visited>>
formatter == <<request, reply>>

NoArgs == [name |-> None, asset_dir |-> None, system |-> "Linux"]

IdlePipeline ==
    /\ fs = InitialFs
    /\ store = <<>>
    /\ zip = <<>>
    /\ ossc = None
    /\ op = "none"
    /\ err = "ok"
    /\ args = NoArgs
    /\ pre = [fs |-> InitialFs, store |-> <<>>]
    /\ removals = 0

IdleTranslator == src = None /\ trace = <<>>

IdleVisitor == tree = None /\ pattern = None /\ visited = None

IdleFormatter == request = None /\ reply = None

\* a collection in the scenes directory, or an archive received from elsewhere
Init ==
    /\ fs \in {[InitialFs EXCEPT !.glob = g] : g \in GlobOrders}
    /\ \E d \in Documents \cup {None} :
          IF d # None
          THEN pc = "start" /\ store = [n \in {S_T} |-> Json(d)] /\ zip = <<>>
          ELSE pc = "given" /\ store = <<>> /\ zip \in ForeignArchives
    /\ ossc = None
    /\ op = "none"
    /\ err = "ok"
    /\ args = NoArgs
    /\ pre = [fs |-> fs, store |-> store]
    /\ removals = 0
    /\ IdleTranslator
    /\ IdleVisitor
    /\ IdleFormatter

\* ossc = ObsStudioSceneCollection.from_path("T")
FromPath ==
    /\ pc = "start"
    /\ \E r \in {from_path(fs, store, S_T)} :
          /\ ossc' = r.val
          /\ err' = r.err
          /\ pc' = IF r.err = "ok" THEN "loaded" ELSE "failed"
    /\ op' = "from_path"
    /\ UNCHANGED <<fs, store, zip, args, pre, removals>>
    /\ UNCHANGED <<translator, visitor, formatter>>

\* somebody removes the asset file f while the collection is loaded
RemoveFile(f) ==
    /\ pc = "loaded"
    /\ removals < MaxRemovals
    /\ f \in fs.files
    /\ fs' = [fs EXCEPT !.files = @ \ {f}]
    /\ removals' = removals + 1
    /\ UNCHANGED <<store, zip, ossc, pc, op, err, args, pre>>
    /\ UNCHANGED <<translator, visitor, formatter>>

\* ossc.export_scenes()
ExportScenes ==
    /\ pc = "loaded"
    /\ \E r \in {export_scenes(ossc, fs)} :
          /\ ossc' = r.self
          /\ zip' = r.zip
          /\ err' = r.err
          /\ pc' = IF r.err = "ok" THEN "exported" ELSE "failed"
    /\ op' = "export_scenes"
    /\ UNCHANGED <<fs, store, args, pre, removals>>
    /\ UNCHANGED <<translator, visitor, formatter>>

\* ObsStudioSceneCollection.import_scenes(zip, name, asset_dir) on a host whose
\* platform.system() is system
ImportScenes(name, asset_dir, system) ==
    /\ pc \in {"exported", "given"}
    /\ \E r \in {import_scenes(zip, name, asset_dir, system, fs, store)} :
          /\ ossc' = r.self
          /\ fs' = r.fs
          /\ store' = r.store
          /\ err' = r.err
          /\ pc' = IF r.err = "ok" THEN "imported" ELSE "failed"
    /\ op' = "import_scenes"
    /\ args' = [name |-> name, asset_dir |-> asset_dir, system |-> system]
    /\ pre' = [fs |-> fs, store |-> store]
    /\ UNCHANGED <<zip, removals>>
    /\ UNCHANGED <<translator, visitor, formatter>>

Next ==
    \/ FromPath
    \/ \E f \in Removable : RemoveFile(f)
    \/ ExportScenes
    \/ \E a \in ImportArguments, system \in Systems : ImportScenes(a.name, a.asset_dir, system)

Spec == Init /\ [][Next]_vars

\* a source whose id and versioned_id are any two identifiers
InitIds ==
    /\ IdlePipeline
    /\ pc = "translate"
    /\ \E i \in Identifiers, v \in Identifiers : src = Element(i, v, Obj(<<>>))
    /\ trace = <<>>
    /\ IdleVisitor
    /\ IdleFormatter

\* self._map_source_id(src, prop, system)
MapSourceId(prop, system) ==
    /\ pc = "translate"
    /\ Len(trace) < MaxMapCalls
    /\ src' = map_source_id(src, prop, system).val
    /\ trace' = Append(trace, [prop |-> prop, system |-> system, before |-> src])
    /\ UNCHANGED <<pipeline, pc, visitor, formatter>>

\* the body of the loop of _fix_source_ids(system) for src
FixSource(system) ==
    /\ pc = "translate"
    /\ Len(trace) < MaxMapCalls
    /\ src' = fix_source(src, system).val
    /\ trace' = Append(trace, [prop |-> <<>>, system |-> system, before |-> src])
    /\ UNCHANGED <<pipeline, pc, visitor, formatter>>

NextIds ==
    \/ \E prop \in {S_id, S_versioned_id}, system \in Systems : MapSourceId(prop, system)
    \/ \E system \in Systems : FixSource(system)

SpecIds == InitIds /\ [][NextIds]_vars

\* a tree and a path
InitVisit ==
    /\ IdlePipeline
    /\ IdleTranslator
    /\ IdleFormatter
    /\ pc = "visit"
    /\ tree \in Trees
    /\ pattern \in Patterns
    /\ visited = None

\* ObsStudioSceneCollection._dict_path(tree, pattern, u), with r = []
DictPath ==
    /\ pc = "visit"
    /\ visited' = dict_path(tree, pattern, [kind |-> "u"], <<>>)
    /\ pc' = "visited"
    /\ UNCHANGED <<pipeline, translator, tree, pattern, formatter>>

NextVisit == DictPath

SpecVisit == InitVisit /\ [][NextVisit]_vars

\* a formatter and a path
InitFormat ==
    /\ IdlePipeline
    /\ IdleTranslator
    /\ IdleVisitor
    /\ pc = "format"
    /\ request \in Requests
    /\ reply = None

\* PathFormatter().format_file_name(path)
FormatFileName ==
    /\ pc = "format"
    /\ request.fn = "PathFormatter.format_file_name"
    /\ reply' = PathFormatter_format_file_name(request.self, request.path)
    /\ pc' = "formatted"
    /\ UNCHANGED <<pipeline, translator, visitor, request>>

\* PathFormatter().format_expanding_dirs(path)
FormatExpandingDirs ==
    /\ pc = "format"
    /\ request.fn = "PathFormatter.format_expanding_dirs"
    /\ reply' = PathFormatter_format_expanding_dirs(request.self, request.path)
    /\ pc' = "formatted"
    /\ UNCHANGED <<pipeline, translator, visitor, request>>

\* zpf.format_file_name(path)
ZipFormatFileName ==
    /\ pc = "format"
    /\ request.fn = "ZipPathFormatter.format_file_name"
    /\ reply' = ZipPathFormatter_format_file_name(request.self, request.path)
    /\ pc' = "formatted"
    /\ UNCHANGED <<pipeline, translator, visitor, request>>

\* zpf.format_expanding_dirs(path)
ZipFormatExpandingDirs ==
    /\ pc = "format"
    /\ request.fn = "ZipPathFormatter.format_expanding_dirs"
    /\ reply' = ZipPathFormatter_format_expanding_dirs(request.self, request.path)
    /\ pc' = "formatted"
    /\ UNCHANGED <<pipeline, translator, visitor, request>>

NextFormat ==
    \/ FormatFileName
    \/ FormatExpandingDirs
    \/ ZipFormatFileName
    \/ ZipFormatExpandingDirs

SpecFormat == InitFormat /\ [][NextFormat]_vars

(***************************************************************************)
(* The vocabulary of the properties                                        *)
(***************************************************************************)

\* the position of the archive's document member, 0 if there is none
DocumentMember == Last({i \in 1..Len(zip) : zip[i].name = S_scene_collection_json})

\* the archive has a document member and it holds JSON
ParseableDocument == DocumentMember # 0 /\ zip[DocumentMember].data.kind = "json"

\* the document in the archive, in the scenes directory after import, and in the
\* scenes directory before the collection was loaded
ArchiveDocument == zip[DocumentMember].data.doc
PersistedDocument == store[ossc.name.v].doc
OriginalDocument == pre.store[S_T].doc

\* the archive was written by export_scenes
WasExported == S_T \in DOMAIN pre.store

\* the directory import_scenes extracts into
Destination ==
    IF Truthy(args.asset_dir) THEN args.asset_dir.v
    ELSE get_documents_path \o <<"/">> \o S_OBS \o <<"/">> \o S_Scene_Assets \o <<"/">> \o ossc.name.v

\* the variant of an element of the list l: a source's versioned_id, a transition's id
Variant(l, e) == IF l = S_sources THEN e.v[S_versioned_id].v ELSE e.v[S_id].v

\* the asset registry: the key under settings that holds one path, and the key that
\* holds a list of {"value": path}; <<>> if the variant has none
SingleKey(l, variant) ==
    CASE l = S_sources /\ variant = S_ffmpeg_source -> S_local_file
      [] l = S_sources /\ variant = S_image_source -> S_file
      [] l = S_transitions /\ variant = S_obs_stinger_transition -> S_path
      [] OTHER -> <<>>

ListKey(l, variant) ==
    CASE l = S_sources /\ variant = S_slideshow -> S_files
      [] l = S_sources /\ variant = S_vlc_source -> S_playlist
      [] OTHER -> <<>>

Registered(l, e) == SingleKey(l, Variant(l, e)) # <<>> \/ ListKey(l, Variant(l, e)) # <<>>

\* the registered asset fields of element i of list l: <<l, i, key, j>>, with j = 0 for
\* a key that holds one path and j the position in the list otherwise
FieldsOf(l, i, settings, single, list) ==
    IF single # <<>> /\ single \in DOMAIN settings THEN {<<l, i, single, 0>>}
    ELSE IF list # <<>> /\ list \in DOMAIN settings
         THEN {<<l, i, list, j>> : j \in 1..Len(settings[list].v)}
    ELSE {}

ElementFields(l, i, e) ==
    FieldsOf(l, i, e.v[S_settings].v, SingleKey(l, Variant(l, e)), ListKey(l, Variant(l, e)))

Fields(doc) ==
    UNION {UNION {ElementFields(l, i, doc.v[l].v[i]) : i \in 1..Len(doc.v[l].v)} :
           l \in {S_sources, S_transitions}}

\* the value of the field a of a document
FieldAt(doc, a) ==
    IF a[4] = 0 THEN doc.v[a[1]].v[a[2]].v[S_settings].v[a[3]].v
    ELSE doc.v[a[1]].v[a[2]].v[S_settings].v[a[3]].v[a[4]].v[S_value].v

\* an element without its id and versioned_id if it is a source
Masked(l, e) ==
    IF l = S_sources THEN [k \in DOMAIN e.v \ {S_id, S_versioned_id} |-> e.v[k]] ELSE e.v

\* every unregistered element of before is the same in after, identifiers apart
FrameKept(before, after) ==
    \A l \in {S_sources, S_transitions} :
        /\ Len(after.v[l].v) = Len(before.v[l].v)
        /\ \A i \in 1..Len(before.v[l].v) :
              ~Registered(l, before.v[l].v[i]) =>
                  Masked(l, after.v[l].v[i]) = Masked(l, before.v[l].v[i])

\* a document without its unregistered elements
Stripped(doc) ==
    [doc EXCEPT !.v[S_sources].v = SelectSeq(@, LAMBDA e : Registered(S_sources, e)),
                !.v[S_transitions].v = SelectSeq(@, LAMBDA e : Registered(S_transitions, e))]

\* the devices of the table and their identifier on each system
Camera == [Linux |-> S_v4l2_input, Darwin |-> S_av_capture_input, Windows |-> S_dshow_input]
Display == [Linux |-> S_xshm_input, Darwin |-> S_display_capture, Windows |-> S_monitor_capture]

\* the identifier system H has for the device x names on any system; x if it names none
HostIdentifier(x, H) ==
    IF \E h \in Systems : Camera[h] = x THEN Camera[H]
    ELSE IF \E h \in Systems : Display[h] = x THEN Display[H]
    ELSE x

\* the exceptions the copy of a member to disk ends with
CopyErrors == {"FileExistsError", "IsADirectoryError", "NotADirectoryError", "FileNotFoundError"}

\* the archive members under assets/ that name a file and that no other member is
\* in the way of
Extractable ==
    {n \in Range(namelist(zip)) :
        /\ StartsWith(n, asset_path_in_archive \o <<"/">>)
        /\ Len(n) > Len(asset_path_in_archive) + 1
        /\ n[Len(n)] # "/"
        /\ \A m \in Range(namelist(zip)) :
              ~StartsWith(m, n \o <<"/">>) /\ ~StartsWith(n, m \o <<"/">>)}

\* the last translation applied
LastCall == trace[Len(trace)]

\* the callbacks _dict_path is to make with the keys of a pattern, as u records them:
\* one for each mapping reached that has the last key, in document order
RECURSIVE Reached(_, _)
Reached(node, keys) ==
    IF node.t = "list"
    THEN Flatten([i \in 1..Len(node.v) |-> Reached(node.v[i], keys)])
    ELSE IF node.t = "dict" /\ keys # <<>> /\ keys[1] \in DOMAIN node.v
         THEN IF Len(keys) = 1 THEN << <<keys[1], node.v[keys[1]]>> >>
              ELSE Reached(node.v[keys[1]], Tail(keys))
    ELSE <<>>

\* the keys of a pattern given as "a.c" or as ["a", "c"]
PatternKeys(path) == IF path.t = "str" THEN Split(path.v, ".") ELSE path.v

(***************************************************************************)
(* The properties                                                          *)
(***************************************************************************)

\* C1: after export_scenes and import_scenes of the archive into the directory D,
\* every registered asset field whose value P named an existing file holds
\* D + "/" + basename(P).
C1_RoundTrip ==
    (pc = "imported" /\ WasExported) =>
        \A a \in Fields(OriginalDocument) :
            isfile(pre.fs, FieldAt(OriginalDocument, a)) =>
                FieldAt(PersistedDocument, a)
                    = Destination \o <<"/">> \o basename(FieldAt(OriginalDocument, a))

\* C2: export_scenes never aborts because of a missing asset: it returns normally, and
\* every asset of the list that is a file when it is written is a member of the
\* archive under assets/<remainder>, also when a file was removed after from_path.
C2_ExportNeverAborts ==
    op = "export_scenes" =>
        /\ err = "ok"
        /\ \A n \in 1..Len(ossc.assets) :
              isfile(fs, ossc.assets[n]) =>
                  LStrip(normpath(asset_path_in_archive \o <<"/">>
                                    \o PartitionTail(ossc.assets[n], S_marker)), "/")
                      \in Range(namelist(zip))

\* C3: if the archive has no scene-collection.json member, or the member is not a
\* parseable document, import_scenes aborts with an error and has written neither a
\* document to the scenes directory nor a file or directory to the file system.
C3_AllOrNothing ==
    (op = "import_scenes" /\ ~ParseableDocument) =>
        /\ pc = "failed"
        /\ err \in {"KeyError", "JSONDecodeError"}
        /\ store = pre.store
        /\ fs = pre.fs

C3_Witness ==
    /\ op = "import_scenes"
    /\ DocumentMember # 0
    /\ ~ParseableDocument
    /\ pc = "failed"
    /\ Truthy(args.asset_dir)

\* C4: a problem with one asset does not abort import_scenes: once the document is
\* parsed the import completes, and every member under assets/ that names a file and
\* that no other member is in the way of is extracted into the destination.
C4_AssetProblemsRecoverable ==
    (op = "import_scenes" /\ (pc = "imported" \/ err \in CopyErrors)) =>
        /\ pc = "imported"
        /\ \A n \in Extractable :
              Resolve(join(Destination, From(n, Len(asset_path_in_archive) + 1))) \in fs.files

\* C5: translation to the neutral identifier and back is the identity on the
\* identifiers of a system's overlay, and translation of a neutral key of the overlay
\* to the system and back to neutral is the identity.
C5_Inverse ==
    (Len(trace) = 2 /\ trace[1].prop # <<>> /\ trace[2].prop = trace[1].prop) =>
        /\ \A os \in {"Darwin", "Windows"} :
              ( /\ trace[1].system = "Linux"
                /\ trace[2].system = os
                /\ trace[1].before.v[trace[1].prop].v \in {Camera[os], Display[os]} )
              => src.v[trace[1].prop] = trace[1].before.v[trace[1].prop]
        /\ \A os \in {"Darwin", "Windows"} :
              ( /\ trace[1].system = os
                /\ trace[2].system = "Linux"
                /\ trace[1].before.v[trace[1].prop].v \in {Camera["Linux"], Display["Linux"]} )
              => src.v[trace[1].prop] = trace[1].before.v[trace[1].prop]

C5_Witness ==
    /\ Len(trace) = 2
    /\ trace[1].prop = S_id
    /\ trace[2].prop = S_id
    /\ trace[1].system = "Linux"
    /\ trace[2].system = "Windows"
    /\ trace[1].before.v[S_id].v = S_monitor_capture
    /\ trace[2].before.v[S_id].v = S_xshm_input
    /\ src.v[S_id].v = S_monitor_capture

\* C6 as stated: with system "Linux" _map_source_id leaves every identifier unchanged;
\* with another system it maps a neutral key of that system's overlay and leaves
\* every other identifier unchanged.
C6_LinuxIdentity ==
    (Len(trace) > 0 /\ LastCall.prop # <<>>) =>
        src.v[LastCall.prop].v
            = IF LastCall.system = "Linux" THEN LastCall.before.v[LastCall.prop].v
              ELSE IF LastCall.before.v[LastCall.prop].v = Camera["Linux"]
                   THEN Camera[LastCall.system]
              ELSE IF LastCall.before.v[LastCall.prop].v = Display["Linux"]
                   THEN Display[LastCall.system]
              ELSE LastCall.before.v[LastCall.prop].v

\* C6 amended: with system "Linux" _map_source_id maps an identifier of any system's
\* overlay to its neutral key and leaves every other identifier unchanged; with
\* another system it maps a neutral key of that system's overlay and leaves every
\* other identifier unchanged; the other property of the source is never changed.
C6_LinuxNeutral ==
    (Len(trace) > 0 /\ LastCall.prop # <<>>) =>
        /\ src.v[LastCall.prop].v
              = IF LastCall.system = "Linux"
                THEN HostIdentifier(LastCall.before.v[LastCall.prop].v, "Linux")
                ELSE IF LastCall.before.v[LastCall.prop].v = Camera["Linux"]
                     THEN Camera[LastCall.system]
                ELSE IF LastCall.before.v[LastCall.prop].v = Display["Linux"]
                     THEN Display[LastCall.system]
                ELSE LastCall.before.v[LastCall.prop].v
        /\ \A k \in DOMAIN src.v \ {LastCall.prop} : src.v[k] = LastCall.before.v[k]

C6_Witness ==
    /\ Len(trace) > 0
    /\ LastCall.prop = S_versioned_id
    /\ LastCall.system = "Linux"
    /\ LastCall.before.v[S_versioned_id].v = S_av_capture_input
    /\ src.v[S_versioned_id].v = S_v4l2_input

\* C7: after import_scenes on a host H the persisted document has the id and the
\* versioned_id of every source translated to H, each from its own value in the
\* archive's document alone: an identifier of the table becomes H's identifier of
\* that device, any other identifier is unchanged.
C7_TranslatedToHost ==
    pc = "imported" =>
        /\ Len(PersistedDocument.v[S_sources].v) = Len(ArchiveDocument.v[S_sources].v)
        /\ \A i \in 1..Len(ArchiveDocument.v[S_sources].v) :
              \A prop \in {S_id, S_versioned_id} :
                  PersistedDocument.v[S_sources].v[i].v[prop].v
                      = HostIdentifier(ArchiveDocument.v[S_sources].v[i].v[prop].v, args.system)

C7_Witness ==
    /\ pc = "imported"
    /\ args.system = "Windows"
    /\ \E i \in 1..Len(ArchiveDocument.v[S_sources].v) :
          /\ ArchiveDocument.v[S_sources].v[i].v[S_id].v = S_av_capture_input
          /\ ArchiveDocument.v[S_sources].v[i].v[S_versioned_id].v = S_ffmpeg_source
          /\ PersistedDocument.v[S_sources].v[i].v[S_id].v = S_dshow_input
          /\ PersistedDocument.v[S_sources].v[i].v[S_versioned_id].v = S_ffmpeg_source
    /\ \E i \in 1..Len(ArchiveDocument.v[S_sources].v) :
          /\ ArchiveDocument.v[S_sources].v[i].v[S_id].v = S_dshow_input
          /\ ArchiveDocument.v[S_sources].v[i].v[S_versioned_id].v = S_display_capture
          /\ PersistedDocument.v[S_sources].v[i].v[S_versioned_id].v = S_monitor_capture

\* C8: _dict_path returns normally having called the callback exactly once for every
\* mapping reached along the pattern that has the pattern's last key, in document
\* order, and a pattern "a.c" gives the same calls as the pattern ["a", "c"].
C8_VisitsEveryReachedMapping ==
    pc = "visited" =>
        /\ visited.err = "ok"
        /\ visited.acc = Reached(tree, PatternKeys(pattern))
        /\ visited = dict_path(tree, List(PatternKeys(pattern)), [kind |-> "u"], <<>>)

\* C9: sources and transitions whose variant is not in the asset registry are not
\* visited by the read-pass or the mutate-pass: loading, exporting and importing leave
\* every field of such an element other than a source's id and versioned_id unchanged,
\* and the asset list is that of the document without these elements.
C9_UnregisteredUntouched ==
    /\ (pc = "loaded" \/ op = "export_scenes") => FrameKept(store[S_T].doc, ossc.scenes)
    /\ (pc = "loaded" /\ removals = 0) =>
          ossc.assets = find_assets(Stripped(store[S_T].doc),
                                    [fn |-> "PathFormatter.format_expanding_dirs",
                                     self |-> fs]).val
    /\ pc = "exported" => FrameKept(store[S_T].doc, ArchiveDocument)
    /\ pc = "imported" =>
          /\ FrameKept(ArchiveDocument, PersistedDocument)
          /\ ossc.assets = find_assets(Stripped(ArchiveDocument),
                                       [fn |-> "ZipPathFormatter.format_expanding_dirs",
                                        self |-> ZipPathFormatter(namelist(zip),
                                                                  asset_path_in_archive)]).val

C9_Witness ==
    /\ pc = "imported"
    /\ WasExported
    /\ \E i \in 1..Len(OriginalDocument.v[S_sources].v) :
          /\ OriginalDocument.v[S_sources].v[i].v[S_versioned_id].v = S_browser_source
          /\ PersistedDocument.v[S_sources].v[i].v[S_settings] = AllKeys
    /\ \E i \in 1..Len(OriginalDocument.v[S_transitions].v) :
          /\ OriginalDocument.v[S_transitions].v[i].v[S_id].v = S_obs_stinger_transition
          /\ PersistedDocument.v[S_transitions].v[i] # OriginalDocument.v[S_transitions].v[i]
    /\ ossc.assets = <<P_assets_f>>

\* C10: the mutate-pass leaves a registered field as it is when the formatter gives no
\* token for its value: at export when the value names no existing file or directory,
\* at import when the value does not begin with the archive prefix.
C10_NoTokenNoWrite ==
    /\ (pc = "exported") =>
          \A a \in Fields(store[S_T].doc) :
              ( /\ ~isfile(fs, FieldAt(store[S_T].doc, a))
                /\ ~isdir(fs, FieldAt(store[S_T].doc, a)) )
              => FieldAt(ArchiveDocument, a) = FieldAt(store[S_T].doc, a)
    /\ (pc = "imported") =>
          \A a \in Fields(ArchiveDocument) :
              ~StartsWith(FieldAt(ArchiveDocument, a), asset_path_in_archive)
              => FieldAt(PersistedDocument, a) = FieldAt(ArchiveDocument, a)

\* a list of str in strictly ascending order
Ascending(q) == \A i \in 1..(Len(q) - 1) : StrLess(q[i], q[i + 1])

\* the check argument from_path hands to _parse
FsCheck == [fn |-> "PathFormatter.format_expanding_dirs", self |-> fs]

\* C11: the asset list of the read-pass is sorted ascending and free of duplicates;
\* a second read-pass over the loaded document and the same files gives the same list,
\* and the read-pass leaves the document as it is.
C11_SortedDeterministic ==
    (pc = "loaded" /\ removals = 0) =>
        /\ Ascending(ossc.assets)
        /\ find_assets(store[S_T].doc, FsCheck) = Ok(ossc.assets)
        /\ find_assets(ossc.scenes, FsCheck) = Ok(ossc.assets)
        /\ process_assets(ossc.scenes, [kind |-> "add", check |-> FsCheck]).o = ossc.scenes

C11_Witness ==
    /\ pc = "loaded"
    /\ removals = 0
    /\ fs.glob = "descending"
    /\ ossc.assets = << <<"/", "u", "/", ".", "/", "f">>,
                        <<"/", "v", "/", ".", "/", "f", "/", "x">>,
                        <<"/", "v", "/", ".", "/", "f", "/", "y">> >>
    /\ Len(process_assets(ossc.scenes, [kind |-> "add", check |-> FsCheck]).acc) = 4



\* the request was answered by the formatter function fn
Answered(fn) == pc = "formatted" /\ request.fn = fn

\* name lies below path: path, then "/", then more
Below(name, path) ==
    /\ Len(name) > Len(path)
    /\ SubSeq(name, 1, Len(path)) = path
    /\ name[Len(path) + 1] = "/"

\* C12: ZipPathFormatter.format_expanding_dirs answers [path] when path is a
\* member name; otherwise it answers exactly the members whose name is path,
\* then "/", then more, in the order of the archive; a member whose name only
\* begins with path is never in the answer.
C12_ZipExpansion ==
    Answered("ZipPathFormatter.format_expanding_dirs") =>
        /\ reply.err = "ok"
        /\ request.path.v \in Range(request.self.names) => reply.val = <<request.path.v>>
        /\ request.path.v \notin Range(request.self.names) =>
               reply.val = SelectSeq(request.self.names,
                                     LAMBDA n : Below(n, request.path.v))
        /\ \A n \in Range(reply.val) : n = request.path.v \/ Below(n, request.path.v)

C12_Witness ==
    /\ Answered("ZipPathFormatter.format_expanding_dirs")
    /\ request.path.v = A_dir
    /\ request.self.names = <<A_dir1_image3, A_dir_image2>>
    /\ reply.val = <<A_dir_image2>>


\* the direct children of the directory path that are regular files whose name
\* does not begin with "."
ChildFiles(f, path) ==
    {c \in Children(f, path) : c \in f.files /\ ~StartsWith(basename(c), <<".">>)}

\* the name of the directory a path names: its last component
DirName(path) == Bind(Parts(path), LAMBDA cs : cs[Len(cs)])

\* C13: PathFormatter.format_expanding_dirs is one level deep: a path naming a
\* file gives the single token dirname + "/./" + basename; a path naming a
\* directory gives one token dirname(path) + "/./" + <dir name>/<child name> for
\* every direct child that is a regular file not beginning with ".", and nothing
\* for sub-directories or the files in them; any other path gives the empty list.
C13_OneLevel ==
    Answered("PathFormatter.format_expanding_dirs") =>
        /\ reply.err = "ok"
        /\ isfile(request.self, request.path.v) =>
               reply.val = <<dirname(request.path.v) \o S_marker \o basename(request.path.v)>>
        /\ (~isfile(request.self, request.path.v) /\ isdir(request.self, request.path.v)) =>
               /\ Range(reply.val) =
                      {dirname(request.path.v) \o S_marker \o DirName(request.path.v)
                          \o <<"/">> \o basename(c) : c \in ChildFiles(request.self, request.path.v)}
               /\ Len(reply.val) = Cardinality(ChildFiles(request.self, request.path.v))
        /\ (~isfile(request.self, request.path.v) /\ ~isdir(request.self, request.path.v)) =>
               reply.val = <<>>


\* the names of the members of the archive, in its order
MemberNamesOf(z) == [i \in 1..Len(z) |-> z[i].name]

\* the positions of the members of the archive named n
Named(z, n) == {i \in 1..Len(z) : z[i].name = n}

\* C14: an archive written by export_scenes has exactly one member named
\* scene-collection.json, which holds the rewritten document; every other member
\* is named assets/ + the remainder of a token of the asset list; and no two
\* members have the same name.
C14_ArchiveLayout ==
    (pc = "exported") =>
        /\ Cardinality(Named(zip, S_scene_collection_json)) = 1
        /\ ArchiveDocument = ossc.scenes
        /\ \A i \in 1..Len(zip) :
              zip[i].name # S_scene_collection_json =>
                 \E a \in Range(ossc.assets) :
                    zip[i].name = asset_path_in_archive \o <<"/">> \o PartitionTail(a, S_marker)
        /\ \A i, j \in 1..Len(zip) : zip[i].name = zip[j].name => i = j


\* C15: _dict_path returns normally whatever node the pattern meets (a mapping, a
\* sequence, a string or a number), and where the pattern is empty or cannot be
\* followed to its last key on any branch it makes no callback.
C15_AbsentIsSilent ==
    pc = "visited" =>
        /\ visited.err = "ok"
        /\ Reached(tree, PatternKeys(pattern)) = <<>> => visited.acc = <<>>


\* the fields a pass over the document doc visits: the callbacks _process_assets_in_sources
\* and _process_assets_in_transitions make, recorded by u as (key, value) in the
\* order they are made
VisitedFields(doc) == process_assets(doc, [kind |-> "u"]).acc

\* the document the mutate-pass of export_scenes is run on: the one the read-pass
\* was run on, after the _fix_source_ids() of _parse
BeforeExportRewrite == fix_source_ids(store[S_T].doc, "Linux").val

\* the document the mutate-pass of import_scenes is run on: the one the read-pass
\* was run on, after the _fix_source_ids() of _parse, the renaming and
\* _fix_source_ids(platform.system())
BeforeImportRewrite ==
    fix_source_ids([fix_source_ids(ArchiveDocument, "Linux").val EXCEPT !.v[S_name] = ossc.name],
                   args.system).val

\* C16: within one export and within one import the read-pass and the mutate-pass
\* visit the same fields, in the same order, although the identifiers are
\* translated and the collection is renamed between the two passes.
C16_SameFields ==
    /\ pc = "exported" =>
          /\ update_assets(BeforeExportRewrite, asset_path_in_archive,
                           [fn |-> "PathFormatter.format_file_name", self |-> fs]).val = ossc.scenes
          /\ VisitedFields(BeforeExportRewrite) = VisitedFields(store[S_T].doc)
    /\ pc = "imported" =>
          /\ update_assets(BeforeImportRewrite, Destination,
                           [fn |-> "ZipPathFormatter.format_file_name",
                            self |-> ZipPathFormatter(namelist(zip), asset_path_in_archive)]).val
                = ossc.scenes
          /\ VisitedFields(BeforeImportRewrite) = VisitedFields(ArchiveDocument)

\* an archive exported from a collection with a camera and a media source was
\* imported on macOS under a new name: the camera's identifier was translated and
\* the media source's field was visited by both passes
C16_Witness ==
    /\ pc = "imported"
    /\ WasExported
    /\ args.system = "Darwin"
    /\ ossc.name = Str(S_N)
    /\ \E i \in 1..Len(ossc.scenes.v[S_sources].v) :
          ossc.scenes.v[S_sources].v[i].v[S_versioned_id] = Str(S_av_capture_input)
    /\ Len(VisitedFields(ArchiveDocument)) = 1
    /\ VisitedFields(ArchiveDocument)[1][1] = S_local_file


\* the positions at which m occurs in s
Occurrences(s, m) == {i \in 1..(Len(s) - Len(m) + 1) : SubSeq(s, i, i + Len(m) - 1) = m}

\* the token t holds the marker once and the remainder r after it
Token(t, r) == Cardinality(Occurrences(t, S_marker)) = 1 /\ PartitionTail(t, S_marker) = r

\* C17: every token the formatters produce holds the marker "/./" exactly once,
\* also for a path that holds "/./" itself, and the part after the marker, which
\* is what the rewritten field and the member name are made of, is the basename of
\* the path for a file, <dir name>/<child name> for a file of an expanded
\* directory, and the path below the prefix for a path of an archive.
C17_OneMarker ==
    /\ (Answered("PathFormatter.format_file_name") /\ reply.val # None) =>
           Token(reply.val.v, basename(request.path.v))
    /\ (Answered("PathFormatter.format_expanding_dirs") /\ isfile(request.self, request.path.v)) =>
           \A t \in Range(reply.val) : Token(t, basename(request.path.v))
    /\ (Answered("PathFormatter.format_expanding_dirs") /\ ~isfile(request.self, request.path.v)) =>
           \A t \in Range(reply.val) :
              \E c \in ChildFiles(request.self, request.path.v) :
                 Token(t, DirName(request.path.v) \o <<"/">> \o basename(c))
    /\ (Answered("ZipPathFormatter.format_file_name")
          /\ StartsWith(request.path.v, request.self.prefix \o <<"/">>)) =>
           Token(reply.val.v, From(request.path.v, Len(request.self.prefix) + 1))


\* the path import_scenes writes the archive member n to
WrittenTo(n) == join(Destination, From(n, Len(asset_path_in_archive) + 1))

\* the members of the archive below the directory prefix v
MembersBelow(v) == {n \in Range(namelist(zip)) : Below(n, v)}

\* C18: after a completed import_scenes into the directory D the persisted
\* document and the extracted files agree: a registered field whose value in the
\* archive named a member holds the path of the file written for that member; a
\* registered field whose value named a directory prefix of members holds a
\* directory under D whose files are exactly those written for the members of that
\* prefix; and no registered field holds D + "/".
C18_FieldsNameExtractedFiles ==
    pc = "imported" =>
        \A a \in Fields(ArchiveDocument) :
            /\ FieldAt(ArchiveDocument, a) \in Range(namelist(zip)) =>
                  /\ FieldAt(PersistedDocument, a) = WrittenTo(FieldAt(ArchiveDocument, a))
                  /\ isfile(fs, FieldAt(PersistedDocument, a))
            /\ ( /\ FieldAt(ArchiveDocument, a) \notin Range(namelist(zip))
                 /\ MembersBelow(FieldAt(ArchiveDocument, a)) # {} ) =>
                  /\ isdir(fs, FieldAt(PersistedDocument, a))
                  /\ Below(FieldAt(PersistedDocument, a), Destination)
                  /\ {f \in fs.files : Below(f, Resolve(FieldAt(PersistedDocument, a)))}
                        = {Resolve(WrittenTo(n)) : n \in MembersBelow(FieldAt(ArchiveDocument, a))}
            /\ FieldAt(PersistedDocument, a) # Destination \o <<"/">>

====
